---- MODULE Spec2Model ----
(***************************************************************************)
(* Model of concat.py: scan a directory for *.md entries, sort them, drop   *)
(* the output file, and write every entry's banner and text to the output.  *)
(* Text is modelled character by character (a string is a sequence of       *)
(* one-character strings), a path is the sequence of its components.        *)
(***************************************************************************)
EXTENDS Integers, Sequences, FiniteSets, TLC

VARIABLES
    fs,           \* the file system: a set of entries
    entry,        \* "main": the command line; "call": concatenate_files is
                  \* called with what scan_markdown_files returned
    inArg,        \* --input
    outArg,       \* --output
    input_dir,    \* main: the resolved input path
    output_file,  \* main: the resolved output path
    pc,           \* where the program is
    scanned,      \* what scan_markdown_files returned
    md_files,     \* the list main hands to concatenate_files
    i,            \* concatenate_files: the index of enumerate
    log,          \* the writes to the output file that succeeded, in order
    stderr,       \* the messages printed to standard error
    stdout,       \* the messages printed to standard output
    exitCode,     \* the exit status, -1 while the program runs
    touched,      \* whether this run opened the output file
    envFaults,    \* the failures the environment injected so far
    run,          \* 1 for the first run, 2 for the run that repeats it
    outBefore     \* the output path as it was when this run started

vars == <<fs, entry, inArg, outArg, input_dir, output_file, pc, scanned, md_files, i,
          log, stderr, stdout, exitCode, touched, envFaults, run, outBefore>>

----------------------------------------------------------------------------
(* Bounds *)

\* most entries named *.md in one tree
MaxEntries == 3
\* most failures the environment injects (a denied traversal, a failing
\* open, write or flush of the output file) in one behaviour
MaxEnvFaults == 1

----------------------------------------------------------------------------
(* Characters and strings *)

\* code point of the characters that occur in names
Ord(c) ==
    CASE c = "-" -> 45 [] c = "." -> 46 [] c = "/" -> 47 [] c = "B" -> 66
      [] c = "a" -> 97 [] c = "b" -> 98 [] c = "c" -> 99 [] c = "d" -> 100 [] c = "h" -> 104
      [] c = "l" -> 108 [] c = "m" -> 109 [] c = "n" -> 110 [] c = "o" -> 111
      [] c = "q" -> 113 [] c = "t" -> 116 [] c = "x" -> 120 [] c = "y" -> 121

\* Python str comparison: by code point, a proper prefix is smaller
RECURSIVE StrLt(_, _)
StrLt(s, t) ==
    IF t = <<>> THEN FALSE
    ELSE IF s = <<>> THEN TRUE
    ELSE IF Head(s) # Head(t) THEN Ord(Head(s)) < Ord(Head(t))
    ELSE StrLt(Tail(s), Tail(t))

\* "/".join(parts)
RECURSIVE Join(_)
Join(parts) ==
    IF parts = <<>> THEN <<>>
    ELSE IF Len(parts) = 1 THEN parts[1]
    ELSE parts[1] \o <<"/">> \o Join(Tail(parts))

\* str(path) of an absolute path
PathStr(p) == <<"/">> \o Join(p)

\* Path.__lt__: the lists of components are compared, component by component
RECURSIVE PathLt(_, _)
PathLt(p, q) ==
    IF q = <<>> THEN FALSE
    ELSE IF p = <<>> THEN TRUE
    ELSE IF Head(p) # Head(q) THEN StrLt(Head(p), Head(q))
    ELSE PathLt(Tail(p), Tail(q))

\* a sort of the paths as whole strings, str(p) < str(q)
RECURSIVE SortedByString(_)
SortedByString(S) ==
    IF S = {} THEN <<>>
    ELSE LET m == CHOOSE x \in S :
                      \A y \in S \ {x} : StrLt(PathStr(x), PathStr(y))
         IN  <<m>> \o SortedByString(S \ {m})

\* sorted(): ascending under Path.__lt__
RECURSIVE Sorted(_)
Sorted(S) ==
    IF S = {} THEN <<>>
    ELSE LET m == CHOOSE x \in S : \A y \in S \ {x} : PathLt(x, y)
         IN  <<m>> \o Sorted(S \ {m})

\* fnmatch of a name against the pattern *.md
EndsMd(name) ==
    /\ Len(name) >= 3
    /\ SubSeq(name, Len(name) - 2, Len(name)) = <<".", "m", "d">>

IsPrefix(p, q) == Len(p) <= Len(q) /\ SubSeq(q, 1, Len(p)) = p

----------------------------------------------------------------------------
(* The file system *)

S_a    == <<"a">>
S_h    == <<".", "h">>
S_o    == <<"o">>
S_n    == <<"n">>
S_q    == <<"q">>
S_amd  == <<"a", ".", "m", "d">>
S_xmd  == <<"x", ".", "m", "d">>
S_abmd == <<"a", "-", "b", ".", "m", "d">>
S_dmd  == <<"d", ".", "m", "d">>
S_ymd  == <<"y", ".", "m", "d">>
S_lmd  == <<"l", ".", "m", "d">>
S_cmd  == <<"c", ".", "m", "d">>
S_txt  == <<"n", ".", "t", "x", "t">>

\* the directory the tool is pointed at, and the paths used as arguments
Base    == <<S_n>>
P_a     == <<S_n, S_a>>
P_amd   == <<S_n, S_amd>>
P_cmd   == <<S_n, S_cmd>>
P_lmd   == <<S_n, S_lmd>>
P_dmd   == <<S_n, S_dmd>>
P_txt   == <<S_n, S_txt>>
P_ext   == <<S_o, S_cmd>>
P_none  == <<S_q>>

File(p, text, e) ==
    [path |-> p, kind |-> "file", target |-> <<>>, content |-> text,
     bad |-> FALSE, err |-> e]
Dir(p) ==
    [path |-> p, kind |-> "dir", target |-> <<>>, content |-> <<>>,
     bad |-> FALSE, err |-> "other"]
Link(p, t) ==
    [path |-> p, kind |-> "link", target |-> t, content |-> <<>>,
     bad |-> FALSE, err |-> "other"]

\* entries every tree has
Skeleton ==
    { Dir(Base), Dir(P_a), Dir(<<S_n, S_h>>), Dir(<<S_o>>),
      File(P_txt, <<"t">>, "other") }

\* entries a tree may have; err is the way the file fails when it is bad
Optional ==
    { File(P_amd, <<"H", "i">>, "perm"),
      File(<<S_n, S_a, S_xmd>>, <<"W", "\r", "\n", "X", "\r">>, "decode"),
      File(<<S_n, S_abmd>>, <<"a", "\n">>, "other"),
      File(<<S_n, S_h, S_ymd>>, <<"\r", "\r", "\n">>, "perm"),
      File(P_cmd, <<"o", "l", "d">>, "decode"),
      Dir(P_dmd),
      Link(P_lmd, P_amd),
      Link(P_lmd, P_ext) }

Paths(tree) == { n.path : n \in tree }

\* a tree has one entry per path and at most MaxEntries entries named *.md
WellFormed(opt) ==
    /\ \A m, n \in opt : m.path = n.path => m = n
    /\ Cardinality(opt) <= MaxEntries

\* any subset of the regular files may be unreadable
Spoil(tree, B) ==
    { IF n.path \in B THEN [n EXCEPT !.bad = TRUE] ELSE n : n \in tree }

Exists(tree, p) == p \in Paths(tree)
Node(tree, p)   == CHOOSE n \in tree : n.path = p
IsDir(tree, p)  == Exists(tree, p) /\ Node(tree, p).kind = "dir"

\* Path.resolve(): follow the symbolic link a path names
RECURSIVE ResolveN(_, _, _)
ResolveN(tree, p, fuel) ==
    IF fuel > 0 /\ Exists(tree, p) /\ Node(tree, p).kind = "link"
    THEN ResolveN(tree, Node(tree, p).target, fuel - 1)
    ELSE p
Resolve(tree, p) == ResolveN(tree, p, Cardinality(tree))

\* the test without resolve(): f == output_file
SamePathUnresolved(tree, f, out) == f = out

\* f.resolve() == output_file.resolve(), the test of lines 46 and 139
SamePath(tree, f, out) == Resolve(tree, f) = Resolve(tree, out)

\* directory.rglob('*.md'): every entry below the directory, in directories
\* of any name, whose own name matches
Rglob(tree, d) ==
    { n.path : n \in { m \in tree :
          /\ IsPrefix(d, m.path) /\ Len(m.path) > Len(d)
          /\ \A k \in Len(d)..(Len(m.path) - 1) :
                 IsDir(tree, SubSeq(m.path, 1, k))
          /\ EndsMd(m.path[Len(m.path)]) } }

----------------------------------------------------------------------------
(* Text *)

RuleWidth == 80

Rule == [k \in 1..RuleWidth |-> "="]

Gap == <<"\n", "\n">>

\* the separator concatenate_files builds for a label
Separator(label) ==
    <<"\n">> \o Rule \o <<"\n">>
      \o <<"F", "i", "l", "e", ":", " ">> \o label \o <<"\n">>
      \o Rule \o <<"\n", "\n">>

\* md_file.relative_to(base_dir), or md_file itself on ValueError, as text
Label(md_file, base_dir) ==
    IF IsPrefix(base_dir, md_file)
    THEN Join(SubSeq(md_file, Len(base_dir) + 1, Len(md_file)))
    ELSE PathStr(md_file)

\* text-mode read: "\r\n" and a lone "\r" arrive as "\n"
RECURSIVE Translate(_)
Translate(s) ==
    IF s = <<>> THEN <<>>
    ELSE IF Head(s) = "\r"
         THEN IF Len(s) >= 2 /\ s[2] = "\n"
              THEN <<"\n">> \o Translate(Tail(Tail(s)))
              ELSE <<"\n">> \o Translate(Tail(s))
         ELSE <<Head(s)>> \o Translate(Tail(s))

\* open(md_file, 'r', encoding='utf-8').read(): the text, or the exception
ReadFile(tree, md_file) ==
    LET r == Resolve(tree, md_file) IN
    IF ~Exists(tree, r) THEN [ok |-> FALSE, err |-> "other", text |-> <<>>]
    ELSE LET n == Node(tree, r) IN
         IF n.kind # "file" THEN [ok |-> FALSE, err |-> "other", text |-> <<>>]
         ELSE IF n.bad THEN [ok |-> FALSE, err |-> n.err, text |-> <<>>]
         ELSE [ok |-> TRUE, err |-> "none", text |-> Translate(n.content)]

\* what is at a path: whether it exists, and its bytes
OutState(tree, p) ==
    IF Exists(tree, p)
    THEN [exists |-> TRUE, kind |-> Node(tree, p).kind,
          content |-> Node(tree, p).content]
    ELSE [exists |-> FALSE, kind |-> "none", content |-> <<>>]

\* open(output_file, 'w'): create the file the path leads to, or truncate it
Truncate(tree, out) ==
    LET p == Resolve(tree, out) IN
    IF Exists(tree, p)
    THEN { IF n.path = p THEN [n EXCEPT !.content = <<>>] ELSE n : n \in tree }
    ELSE tree \cup { File(p, <<>>, "other") }

\* outfile.write(text)
WriteOut(tree, out, text) ==
    { IF n.path = Resolve(tree, out) THEN [n EXCEPT !.content = @ \o text] ELSE n : n \in tree }

----------------------------------------------------------------------------
(* The program *)

InArgs  == { Base, P_a, P_txt, P_none }
OutArgs == { P_cmd, P_ext, P_lmd, P_dmd }

Init ==
    /\ \E opt \in SUBSET Optional :
         /\ WellFormed(opt)
         /\ \E B \in SUBSET { n.path : n \in { m \in opt : m.kind = "file" } } :
              fs = Spoil(Skeleton \cup opt, B)
    /\ entry \in { "main", "call" }
    /\ inArg \in (IF entry = "main" THEN InArgs ELSE { Base })
    /\ outArg \in OutArgs
    /\ input_dir = <<>>
    /\ output_file = <<>>
    /\ pc = "start"
    /\ scanned = <<>>
    /\ md_files = <<>>
    /\ i = 0
    /\ log = <<>>
    /\ stderr = <<>>
    /\ stdout = <<>>
    /\ exitCode = -1
    /\ touched = FALSE
    /\ envFaults = 0
    /\ run = 1
    /\ outBefore = OutState(fs, Resolve(fs, outArg))

Exit(code) == pc' = "done" /\ exitCode' = code

Say(msg, n) == stdout' = stdout \o << [msg |-> msg, n |-> n] >>

Complain(msg, file) == stderr' = stderr \o << [msg |-> msg, file |-> file] >>

\* main, lines 119-132: resolve both arguments, validate the input path
MainMissing ==
    /\ entry = "main"
    /\ pc = "start"
    /\ ~Exists(fs, Resolve(fs, inArg))
    /\ input_dir' = Resolve(fs, inArg)
    /\ output_file' = Resolve(fs, outArg)
    /\ Complain("Error: Input directory does not exist", Resolve(fs, inArg))
    /\ Exit(1)
    /\ UNCHANGED <<fs, entry, inArg, outArg, scanned, md_files, i, log, stdout,
                   touched, envFaults, run, outBefore>>

MainNotDir ==
    /\ entry = "main"
    /\ pc = "start"
    /\ Exists(fs, Resolve(fs, inArg))
    /\ ~IsDir(fs, Resolve(fs, inArg))
    /\ input_dir' = Resolve(fs, inArg)
    /\ output_file' = Resolve(fs, outArg)
    /\ Complain("Error: Input path is not a directory", Resolve(fs, inArg))
    /\ Exit(1)
    /\ UNCHANGED <<fs, entry, inArg, outArg, scanned, md_files, i, log, stdout,
                   touched, envFaults, run, outBefore>>

MainValid ==
    /\ entry = "main"
    /\ pc = "start"
    /\ IsDir(fs, Resolve(fs, inArg))
    /\ input_dir' = Resolve(fs, inArg)
    /\ output_file' = Resolve(fs, outArg)
    /\ Say("Scanning directory", 0)
    /\ pc' = "scan"
    /\ UNCHANGED <<fs, entry, inArg, outArg, scanned, md_files, i, log, stderr,
                   exitCode, touched, envFaults, run, outBefore>>

\* a scan that lists the top directory once more: glob() + rglob()
ScanTwice ==
    /\ pc = "scan"
    /\ scanned' = Sorted(Rglob(fs, input_dir))
                    \o Sorted({ p \in Rglob(fs, input_dir) :
                                  Len(p) = Len(input_dir) + 1 })
    /\ pc' = "filter"
    /\ UNCHANGED <<fs, entry, inArg, outArg, input_dir, output_file, md_files, i,
                   log, stderr, stdout, exitCode, touched, envFaults, run,
                   outBefore>>

\* scan_markdown_files, lines 25-27
scan_markdown_files ==
    /\ pc = "scan"
    /\ scanned' = Sorted(Rglob(fs, input_dir))
    /\ pc' = "filter"
    /\ UNCHANGED <<fs, entry, inArg, outArg, input_dir, output_file, md_files, i,
                   log, stderr, stdout, exitCode, touched, envFaults, run,
                   outBefore>>

\* scan_markdown_files, lines 28-30: the traversal raised PermissionError
ScanDenied ==
    /\ pc = "scan"
    /\ envFaults < MaxEnvFaults
    /\ envFaults' = envFaults + 1
    /\ Complain("Error: Permission denied while scanning directory", input_dir)
    /\ Exit(1)
    /\ UNCHANGED <<fs, entry, inArg, outArg, input_dir, output_file, scanned,
                   md_files, i, log, stdout, touched, run, outBefore>>

\* main without the filter of line 139
FilteredNone(tree, files, out) == files

\* main, line 139
Filtered(tree, files, out) ==
    SelectSeq(files, LAMBDA f : ~SamePath(tree, f, out))

\* main without the exit of lines 141-143
MainEmptyOpens ==
    /\ pc = "filter"
    /\ md_files' = Filtered(fs, scanned, output_file)
    /\ md_files' = <<>>
    /\ Say("Found markdown file(s)", 0)
    /\ pc' = "open"
    /\ UNCHANGED <<fs, entry, inArg, outArg, input_dir, output_file, scanned, i, log,
                   stderr, exitCode, touched, envFaults, run, outBefore>>

\* main, lines 139-143: nothing is left after the filter
MainEmpty ==
    /\ pc = "filter"
    /\ md_files' = Filtered(fs, scanned, output_file)
    /\ md_files' = <<>>
    /\ Complain("Warning: No .md files found in directory", input_dir)
    /\ Exit(0)
    /\ UNCHANGED <<fs, entry, inArg, outArg, input_dir, output_file, scanned, i, log,
                   stdout, touched, envFaults, run, outBefore>>

\* main, lines 139-148: hand the filtered list to concatenate_files
MainFound ==
    /\ pc = "filter"
    /\ md_files' = Filtered(fs, scanned, output_file)
    /\ md_files' # <<>>
    /\ Say("Found markdown file(s)", Len(md_files'))
    /\ pc' = "open"
    /\ UNCHANGED <<fs, entry, inArg, outArg, input_dir, output_file, scanned, i, log,
                   stderr, exitCode, touched, envFaults, run, outBefore>>

\* the exception a failing open() raises (EACCES), and the one a failing
\* write() or flush raises (ENOSPC, EIO, an unencodable label)
OpenError  == "perm"
WriteError == "other"

\* concatenate_files, lines 83-88: the handlers around the whole function
Fatal(e) ==
    /\ Complain(IF e = "perm"
                THEN "Error: Permission denied writing to output file"
                ELSE "Error: Failed to write output file", output_file)
    /\ Exit(1)

\* concatenate_files, lines 71-79: the handlers around one file
Warning(e) ==
    IF e = "perm" THEN "Warning: Permission denied reading file"
    ELSE IF e = "decode" THEN "Warning: Unable to decode file (invalid UTF-8)"
    ELSE "Warning: Error reading file"

\* concatenate_files is entered with the list scan_markdown_files returned,
\* the output path and the base directory as the caller wrote them
CallConcatenate ==
    /\ entry = "call"
    /\ pc = "start"
    /\ IsDir(fs, inArg)
    /\ input_dir' = inArg
    /\ output_file' = outArg
    /\ scanned' = Sorted(Rglob(fs, inArg))
    /\ md_files' = scanned'
    /\ pc' = "open"
    /\ UNCHANGED <<fs, entry, inArg, outArg, i, log, stderr, stdout, exitCode,
                   touched, envFaults, run, outBefore>>

\* concatenate_files, line 43: open() refuses a directory
OpenIsDir ==
    /\ pc = "open"
    /\ IsDir(fs, Resolve(fs, output_file))
    /\ Fatal("other")
    /\ UNCHANGED <<fs, entry, inArg, outArg, input_dir, output_file, scanned,
                   md_files, i, log, stdout, touched, envFaults, run,
                   outBefore>>

\* concatenate_files, line 43: open() fails for a reason of the environment
OpenFault ==
    /\ pc = "open"
    /\ ~IsDir(fs, Resolve(fs, output_file))
    /\ envFaults < MaxEnvFaults
    /\ envFaults' = envFaults + 1
    /\ Fatal(OpenError)
    /\ UNCHANGED <<fs, entry, inArg, outArg, input_dir, output_file, scanned,
                   md_files, i, log, stdout, touched, run, outBefore>>

\* concatenate_files, line 43: the output file is created or truncated
OpenOk ==
    /\ pc = "open"
    /\ ~IsDir(fs, Resolve(fs, output_file))
    /\ fs' = Truncate(fs, output_file)
    /\ touched' = TRUE
    /\ i' = 0
    /\ pc' = "loop"
    /\ UNCHANGED <<entry, inArg, outArg, input_dir, output_file, scanned, md_files,
                   log, stderr, stdout, exitCode, envFaults, run, outBefore>>

InLoop == pc = "loop" /\ i < Len(md_files)

md_file == md_files[i + 1]

IsOutput(f) == SamePath(fs, f, output_file)

\* the separator of the current file
separator == Separator(Label(md_file, input_dir))

\* the gap written before every file: i >= 0
GapFromZero == i >= 0

\* line 61: whether the gap is written before the current file
GapDue == i > 0

\* what lines 61-64 write before the current file is read
Banner == IF GapDue THEN <<Gap, separator>> ELSE <<separator>>
BannerLog ==
    IF GapDue
    THEN << [part |-> "gap", file |-> md_file],
            [part |-> "sep", file |-> md_file] >>
    ELSE << [part |-> "sep", file |-> md_file] >>

RECURSIVE Flatten(_)
Flatten(ss) == IF ss = <<>> THEN <<>> ELSE Head(ss) \o Flatten(Tail(ss))

LoopFrame ==
    UNCHANGED <<entry, inArg, outArg, input_dir, output_file, pc, scanned, md_files,
                exitCode, touched, run, outBefore>>

\* lines 46-47: the entry is the output file
ConcatSkip ==
    /\ InLoop
    /\ IsOutput(md_file)
    /\ i' = i + 1
    /\ UNCHANGED <<fs, log, stderr, stdout, envFaults>>
    /\ LoopFrame

\* line 62 raises: nothing is written, the handler of lines 71-79 warns
ConcatGapFault ==
    /\ InLoop
    /\ ~IsOutput(md_file)
    /\ GapDue
    /\ envFaults < MaxEnvFaults
    /\ envFaults' = envFaults + 1
    /\ Complain(Warning(WriteError), md_file)
    /\ i' = i + 1
    /\ UNCHANGED <<fs, log, stdout>>
    /\ LoopFrame

\* line 64 raises after the gap went out
ConcatSepFault ==
    /\ InLoop
    /\ ~IsOutput(md_file)
    /\ envFaults < MaxEnvFaults
    /\ envFaults' = envFaults + 1
    /\ fs' = WriteOut(fs, output_file, IF GapDue THEN Gap ELSE <<>>)
    /\ log' = log \o (IF GapDue THEN << [part |-> "gap", file |-> md_file] >>
                                ELSE <<>>)
    /\ Complain(Warning(WriteError), md_file)
    /\ i' = i + 1
    /\ UNCHANGED stdout
    /\ LoopFrame

\* a read error that reaches the handlers of lines 83-88
ConcatReadErrorFatal ==
    /\ InLoop
    /\ ~IsOutput(md_file)
    /\ ~ReadFile(fs, md_file).ok
    /\ fs' = WriteOut(fs, output_file, Flatten(Banner))
    /\ log' = log \o BannerLog
    /\ Fatal(ReadFile(fs, md_file).err)
    /\ UNCHANGED <<entry, inArg, outArg, input_dir, output_file, scanned, md_files,
                   i, stdout, touched, envFaults, run, outBefore>>

\* lines 67-68 raise: the banner is already written
ConcatReadError ==
    /\ InLoop
    /\ ~IsOutput(md_file)
    /\ ~ReadFile(fs, md_file).ok
    /\ fs' = WriteOut(fs, output_file, Flatten(Banner))
    /\ log' = log \o BannerLog
    /\ Complain(Warning(ReadFile(fs, md_file).err), md_file)
    /\ i' = i + 1
    /\ UNCHANGED <<stdout, envFaults>>
    /\ LoopFrame

\* line 69 raises after the file was read
ConcatContentFault ==
    /\ InLoop
    /\ ~IsOutput(md_file)
    /\ ReadFile(fs, md_file).ok
    /\ envFaults < MaxEnvFaults
    /\ envFaults' = envFaults + 1
    /\ fs' = WriteOut(fs, output_file, Flatten(Banner))
    /\ log' = log \o BannerLog
    /\ Complain(Warning(WriteError), md_file)
    /\ i' = i + 1
    /\ UNCHANGED stdout
    /\ LoopFrame

\* lines 49-69 without an exception
ConcatWrite ==
    /\ InLoop
    /\ ~IsOutput(md_file)
    /\ ReadFile(fs, md_file).ok
    /\ fs' = WriteOut(fs, output_file,
                      Flatten(Banner) \o ReadFile(fs, md_file).text)
    /\ log' = log \o BannerLog \o << [part |-> "content", file |-> md_file] >>
    /\ i' = i + 1
    /\ UNCHANGED <<stderr, stdout, envFaults>>
    /\ LoopFrame

\* leaving the with block: the flush of close() raises
CloseFault ==
    /\ pc = "loop"
    /\ i = Len(md_files)
    /\ envFaults < MaxEnvFaults
    /\ envFaults' = envFaults + 1
    /\ Fatal(WriteError)
    /\ UNCHANGED <<fs, entry, inArg, outArg, input_dir, output_file, scanned,
                   md_files, i, log, stdout, touched, run, outBefore>>

\* line 81: the loop is over, the file is closed
ConcatDone ==
    /\ pc = "loop"
    /\ i = Len(md_files)
    /\ Say("Successfully concatenated", Len(md_files))
    /\ Exit(0)
    /\ UNCHANGED <<fs, entry, inArg, outArg, input_dir, output_file, scanned,
                   md_files, i, log, stderr, touched, envFaults, run,
                   outBefore>>

\* the tool is started again with the same arguments on the file system a
\* run without injected failure left
Rerun ==
    /\ entry = "main"
    /\ pc = "done"
    /\ run = 1
    /\ envFaults = 0
    /\ run' = 2
    /\ outBefore' = OutState(fs, Resolve(fs, output_file))
    /\ pc' = "start"
    /\ input_dir' = <<>>
    /\ output_file' = <<>>
    /\ scanned' = <<>>
    /\ md_files' = <<>>
    /\ i' = 0
    /\ log' = <<>>
    /\ stderr' = <<>>
    /\ stdout' = <<>>
    /\ exitCode' = -1
    /\ touched' = FALSE
    /\ UNCHANGED <<fs, entry, inArg, outArg, envFaults>>

Next ==
    \/ MainMissing \/ MainNotDir \/ MainValid
    \/ scan_markdown_files \/ ScanDenied
    \/ MainEmpty \/ MainFound
    \/ CallConcatenate
    \/ OpenIsDir \/ OpenFault \/ OpenOk
    \/ ConcatSkip \/ ConcatGapFault \/ ConcatSepFault \/ ConcatReadError
    \/ ConcatContentFault \/ ConcatWrite
    \/ CloseFault \/ ConcatDone
    \/ Rerun

Spec == Init /\ [][Next]_vars

----------------------------------------------------------------------------
(* Vocabulary of the properties *)

Range(seq) == { seq[k] : k \in 1..Len(seq) }

Finished == pc = "done"

\* the run opened the output and the environment injected no failure
CleanRun == Finished /\ touched /\ envFaults = 0

\* the files a separator was written for, in the order of the writes
BlockFiles ==
    LET seps == SelectSeq(log, LAMBDA w : w.part = "sep")
    IN  [k \in 1..Len(seps) |-> seps[k].file]

\* the files whose text was written, in the order of the writes
ContentFiles ==
    LET cs == SelectSeq(log, LAMBDA w : w.part = "content")
    IN  [k \in 1..Len(cs) |-> cs[k].file]

Readable(f) == ReadFile(fs, f).ok

\* the bytes on disk behind an entry
RawContent(f) == Node(fs, Resolve(fs, f)).content

\* the text of the output file
OutText == OutState(fs, Resolve(fs, output_file)).content

\* the run is one of the command line
ToolRun == entry = "main"

----------------------------------------------------------------------------
(* C1: order of the blocks *)

\* C1 as claimed: the blocks appear in the ascending order of the full path
\* strings, each path compared as one string with its separators.
C1_StringOrder ==
    ToolRun =>
        \A j, k \in 1..Len(BlockFiles) :
            j < k => StrLt(PathStr(BlockFiles[j]), PathStr(BlockFiles[k]))

\* C1 amended: the blocks appear in the ascending order of the paths compared
\* component by component, so a/x.md comes before a.md and before a-b.md.
C1_ComponentOrder ==
    \A j, k \in 1..Len(BlockFiles) :
        j < k => PathLt(BlockFiles[j], BlockFiles[k])

C1_Witness ==
    /\ Finished /\ exitCode = 0
    /\ \E j, k \in 1..Len(BlockFiles) :
         /\ j < k
         /\ BlockFiles[j] = <<S_n, S_a, S_xmd>>
         /\ BlockFiles[k] \in { P_amd, <<S_n, S_abmd>> }

----------------------------------------------------------------------------
(* C2: a file that fails to read *)

\* C2: a file whose read fails leaves nothing in the output, neither gap nor
\* separator nor content.
C2_SkippedLeavesNothing ==
    ToolRun => \A k \in 1..Len(log) : Readable(log[k].file)

----------------------------------------------------------------------------
(* C3: failures of the output file *)

\* C3: once opening, writing or flushing the output has failed, the run is
\* over with a non-zero exit status.
C3_OutputFailureIsFatal ==
    (ToolRun /\ run = 1 /\ Finished /\ envFaults > 0) =>
        /\ exitCode = 1
        /\ \A k \in 1..Len(stdout) : stdout[k].msg # "Successfully concatenated"

----------------------------------------------------------------------------
(* C4: the output file is never part of itself *)

\* C4: nothing (gap, separator, content) is written for an entry whose
\* resolved path is the resolved output path.
C4_NoSelfInclusion ==
    \A k \in 1..Len(log) :
        Resolve(fs, log[k].file) # Resolve(fs, output_file)

C4_Witness ==
    /\ Finished /\ exitCode = 0 /\ touched
    /\ Len(ContentFiles) >= 1
    /\ \E f \in Range(scanned) :
         f # output_file /\ Resolve(fs, f) = Resolve(fs, output_file)

----------------------------------------------------------------------------
(* C5: read errors do not stop the run *)

NotOutput(f) == Resolve(fs, f) # Resolve(fs, output_file)

\* the entries of a list whose read fails, each with its warning
RECURSIVE ReadWarnings(_)
ReadWarnings(files) ==
    IF files = <<>> THEN <<>>
    ELSE (IF Readable(Head(files)) THEN <<>>
          ELSE << [msg |-> Warning(ReadFile(fs, Head(files)).err),
                   file |-> Head(files)] >>)
         \o ReadWarnings(Tail(files))

\* C5: in a run without output failure every entry is processed in order
\* whatever entries fail to read: one warning per failing entry, the text of
\* every other entry written, then the success message and exit status 0.
C5_ReadErrorsDoNotStop ==
    CleanRun =>
        /\ exitCode = 0
        /\ stdout[Len(stdout)] =
               [msg |-> "Successfully concatenated", n |-> Len(md_files)]
        /\ i = Len(md_files)
        /\ stderr = ReadWarnings(SelectSeq(md_files, NotOutput))
        /\ ContentFiles =
               SelectSeq(md_files, LAMBDA f : NotOutput(f) /\ Readable(f))

C5_Witness ==
    /\ CleanRun
    /\ Len(md_files) >= 3
    /\ ~Readable(md_files[1])
    /\ ~Readable(md_files[2])
    /\ Readable(md_files[3])
    /\ ContentFiles = <<md_files[3]>>

----------------------------------------------------------------------------
(* C6: what the scanner returns *)

\* the regular files below a directory whose name ends in .md (a symbolic
\* link to a regular file counted as one)
RegularMd(tree, d) ==
    { p \in Paths(tree) :
        /\ IsPrefix(d, p) /\ Len(p) > Len(d)
        /\ EndsMd(p[Len(p)])
        /\ Exists(tree, Resolve(tree, p))
        /\ Node(tree, Resolve(tree, p)).kind = "file" }

\* C6: the scanner returns exactly the regular files below the directory
\* whose name ends in .md.
C6_ScanIsRegularMdFiles ==
    pc = "filter" => Range(scanned) = RegularMd(fs, input_dir)

----------------------------------------------------------------------------
(* C7: the text of the output *)

RuleLine == [k \in 1..80 |-> "="] \o <<"\n">>

\* the separator as the format describes it: rule, label, rule, blank line
SepClaimed(f) ==
    RuleLine \o <<"F", "i", "l", "e", ":", " ">> \o Label(f, input_dir)
      \o <<"\n">> \o RuleLine \o <<"\n">>

RECURSIVE DocClaimed(_, _)
DocClaimed(files, first) ==
    IF files = <<>> THEN <<>>
    ELSE (IF first THEN <<>> ELSE <<"\n", "\n">>)
         \o SepClaimed(Head(files)) \o RawContent(Head(files))
         \o DocClaimed(Tail(files), FALSE)

\* the text with every "\r\n" and every other "\r" replaced by "\n"
Newlines(s) ==
    LET keep == { k \in 1..Len(s) :
                    ~(s[k] = "\n" /\ k > 1 /\ s[k - 1] = "\r") }
        pos(n) == CHOOSE k \in keep :
                      Cardinality({ m \in keep : m < k }) = n - 1
    IN  [n \in 1..Cardinality(keep) |->
            IF s[pos(n)] = "\r" THEN "\n" ELSE s[pos(n)]]

RECURSIVE DocWritten(_, _)
DocWritten(files, first) ==
    IF files = <<>> THEN <<>>
    ELSE (IF first THEN <<>> ELSE <<"\n", "\n">>)
         \o <<"\n">> \o SepClaimed(Head(files))
         \o Newlines(RawContent(Head(files)))
         \o DocWritten(Tail(files), FALSE)

AllReadable == \A f \in Range(md_files) : Readable(f)

\* C7 as claimed: without read error the output is the separators, as the
\* format describes them, each followed by the unchanged text of its file,
\* with the gap between blocks; the document starts with a rule line.
C7_DocumentAsClaimed ==
    (ToolRun /\ CleanRun /\ AllReadable) => OutText = DocClaimed(md_files, TRUE)

\* C7 amended: every separator starts with one more newline, so the document
\* starts with an empty line and three newlines separate a text from the next
\* rule, and each text has its "\r\n" and "\r" replaced by "\n".
C7_DocumentAsWritten ==
    (ToolRun /\ CleanRun /\ AllReadable) => OutText = DocWritten(md_files, TRUE)

C7_Witness ==
    /\ ToolRun /\ CleanRun /\ AllReadable /\ exitCode = 0
    /\ Len(md_files) >= 2
    /\ \E f \in Range(md_files) : \E k \in 1..Len(RawContent(f)) :
           RawContent(f)[k] = "\r"
    /\ OutText # <<>>

----------------------------------------------------------------------------
(* C8: running twice *)

\* C8: a second run with the same arguments on the file system the first run
\* left, both without injected failure, leaves the output as the first did.
C8_Idempotent ==
    (ToolRun /\ run = 2 /\ Finished /\ envFaults = 0) =>
        OutState(fs, output_file) = outBefore

C8_Witness ==
    /\ ToolRun /\ run = 2 /\ Finished /\ envFaults = 0 /\ exitCode = 0
    /\ touched
    /\ output_file \in Range(scanned)
    /\ IsPrefix(input_dir, output_file)
    /\ outBefore.exists
    /\ Len(ContentFiles) >= 1

----------------------------------------------------------------------------
(* C9: when the output is opened *)

\* the list main would hand over for the file system as it is
WouldHandOver ==
    Filtered(fs, Sorted(Rglob(fs, Resolve(fs, inArg))), Resolve(fs, outArg))

\* C9: the output is opened only for an existing input directory and a
\* non-empty filtered list; a missing or non-directory input ends the run
\* with a non-zero status, an empty filtered list with a warning and status
\* 0, and in both cases the output path is as it was.
C9_OpenedOnlyWithWork ==
    ToolRun =>
    /\ touched => IsDir(fs, input_dir) /\ md_files # <<>>
    /\ (Finished /\ ~IsDir(fs, Resolve(fs, inArg))) =>
           /\ exitCode = 1
           /\ ~touched
           /\ OutState(fs, Resolve(fs, outArg)) = outBefore
    /\ (Finished /\ IsDir(fs, Resolve(fs, inArg)) /\ envFaults = 0
          /\ WouldHandOver = <<>>) =>
           /\ exitCode = 0
           /\ stderr = << [msg |-> "Warning: No .md files found in directory",
                           file |-> input_dir] >>
           /\ ~touched
           /\ OutState(fs, Resolve(fs, outArg)) = outBefore

C9_Witness ==
    /\ ToolRun /\ Finished /\ run = 1 /\ exitCode = 0 /\ ~touched
    /\ scanned # <<>> /\ md_files = <<>>
    /\ outBefore.exists
    /\ OutState(fs, output_file) = outBefore

----------------------------------------------------------------------------
(* C10: duplicates in the list *)

\* C10 as claimed: no two entries of the list handed to the concatenator
\* resolve to the same path.
C10_NoDuplicateResolved ==
    ToolRun =>
        \A j, k \in 1..Len(md_files) :
            j # k => Resolve(fs, md_files[j]) # Resolve(fs, md_files[k])

\* C10 amended: no two entries of the list are the same path and none
\* resolves to the output; entries of different names that resolve to one
\* file are all kept.
C10_NoDuplicatePath ==
    /\ \A j, k \in 1..Len(md_files) : j # k => md_files[j] # md_files[k]
    /\ ToolRun =>
           \A k \in 1..Len(md_files) :
               Resolve(fs, md_files[k]) # Resolve(fs, Resolve(fs, outArg))

C10_Witness ==
    /\ ToolRun /\ Finished /\ exitCode = 0 /\ touched
    /\ \E j, k \in 1..Len(md_files) :
         /\ j # k
         /\ Resolve(fs, md_files[j]) = Resolve(fs, md_files[k])
         /\ md_files[j] \in Range(ContentFiles)
         /\ md_files[k] \in Range(ContentFiles)

====
